---- MODULE Spec2Model ----
(***************************************************************************)
(* Verification model of the rotation utilities of rotations3d.py and      *)
(* rotate_vector_collection.py.                                            *)
(*                                                                         *)
(* The library is a set of pure functions over numeric arrays.  Every      *)
(* function is an operator below; one action per function applies it to    *)
(* inputs drawn from bounded sets (variable `fn` names the function called,*)
(* `args` holds its arguments, `ret` the outcome: a returned value or the  *)
(* exception that left the call).                                          *)
(*                                                                         *)
(* Numbers.  Floating point values are modelled exactly in the ring        *)
(* Z[sqrt 2][1/2]: the triple <<a, b, e>> is the number                    *)
(* (a + b*sqrt(2)) / 2^e, kept reduced.  <<0, 0, -1>> is NaN.              *)
(* Angles are numbers in units of pi/4 (an eighth of a turn), so that      *)
(* sine and cosine of every angle of the model are again numbers of the    *)
(* ring.  Rounding error of the floating point evaluation is not modelled: *)
(* an equality of the model is an np.allclose equality of the code.        *)
(***************************************************************************)
EXTENDS Integers, Sequences, FiniteSets, TLC

VARIABLES fn, args, ret

vars == <<fn, args, ret>>

-----------------------------------------------------------------------------
(* Exact numbers *)

NaN == <<0, 0, -1>>

IsNaN(x) == x[3] < 0

RECURSIVE Pow2(_)
Pow2(k) == IF k <= 0 THEN 1 ELSE 2 * Pow2(k - 1)

RECURSIVE Reduce(_, _, _)
Reduce(a, b, e) ==
    IF e > 0 /\ a % 2 = 0 /\ b % 2 = 0
    THEN Reduce(a \div 2, b \div 2, e - 1)
    ELSE <<a, b, e>>

N(k) == <<k, 0, 0>>

Zero == N(0)
One == N(1)
Half == <<1, 0, 1>>
Sqrt2Half == <<0, 1, 1>>

Neg(x) == IF IsNaN(x) THEN NaN ELSE <<-x[1], -x[2], x[3]>>

Add(x, y) ==
    IF IsNaN(x) \/ IsNaN(y) THEN NaN
    ELSE LET e == IF x[3] > y[3] THEN x[3] ELSE y[3]
             fx == Pow2(e - x[3])
             fy == Pow2(e - y[3])
         IN  Reduce(x[1] * fx + y[1] * fy, x[2] * fx + y[2] * fy, e)

Sub(x, y) == Add(x, Neg(y))

Mul(x, y) ==
    IF IsNaN(x) \/ IsNaN(y) THEN NaN
    ELSE Reduce(x[1] * y[1] + 2 * x[2] * y[2],
                x[1] * y[2] + x[2] * y[1],
                x[3] + y[3])

\* sign of a + b*sqrt(2): -1, 0 or 1
SignAB(a, b) ==
    IF a = 0 /\ b = 0 THEN 0
    ELSE IF a >= 0 /\ b >= 0 THEN 1
    ELSE IF a <= 0 /\ b <= 0 THEN -1
    ELSE IF a > 0 THEN (IF a * a > 2 * b * b THEN 1 ELSE -1)
    ELSE (IF 2 * b * b > a * a THEN 1 ELSE -1)

Sign(x) == SignAB(x[1], x[2])

\* comparisons with NaN are False, as in IEEE arithmetic
Eq(x, y) == ~IsNaN(x) /\ ~IsNaN(y) /\ x = y
Geq(x, y) == ~IsNaN(x) /\ ~IsNaN(y) /\ Sign(Sub(x, y)) >= 0
Leq(x, y) == ~IsNaN(x) /\ ~IsNaN(y) /\ Sign(Sub(x, y)) <= 0

Abs(k) == IF k < 0 THEN -k ELSE k

\* largest power of two tried as a denominator of a quotient
MaxExp == 8

\* the quotient n / m of integers as <<q, j>> with n / m = q / 2^j
RECURSIVE DyadicQuot(_, _, _)
DyadicQuot(n, m, j) ==
    IF n % Abs(m) = 0 THEN <<(n \div Abs(m)) * (IF m < 0 THEN -1 ELSE 1), j>>
    ELSE IF j >= MaxExp THEN CHOOSE q \in {} : TRUE   \* not a number of the ring
    ELSE DyadicQuot(2 * n, m, j + 1)

\* x / y; 0/0 is NaN.  Only zero is ever divided by zero here (a norm is zero
\* only for the zero vector), so no infinity is needed.
Div(x, y) ==
    IF IsNaN(x) \/ IsNaN(y) THEN NaN
    ELSE IF y[1] = 0 /\ y[2] = 0 THEN NaN
    ELSE LET m  == y[1] * y[1] - 2 * y[2] * y[2]
             na == x[1] * y[1] - 2 * x[2] * y[2]
             nb == x[2] * y[1] - x[1] * y[2]
             qa == DyadicQuot(na, m, 0)
             qb == DyadicQuot(nb, m, 0)
             j  == IF qa[2] > qb[2] THEN qa[2] ELSE qb[2]
             a  == qa[1] * Pow2(j - qa[2])
             b  == qb[1] * Pow2(j - qb[2])
             e  == x[3] + j - y[3]
         IN  IF e >= 0 THEN Reduce(a, b, e)
             ELSE Reduce(a * Pow2(-e), b * Pow2(-e), 0)

ISqrt(n) == CHOOSE k \in 0..n : k * k = n

IsSquare(n) == n >= 0 /\ \E k \in 0..n : k * k = n

\* square root of a non-negative rational a / 2^e whose root lies in the ring
Sqrt(x) ==
    IF IsNaN(x) THEN NaN
    ELSE LET a == IF x[3] % 2 = 0 THEN x[1] ELSE 2 * x[1]
             h == IF x[3] % 2 = 0 THEN x[3] \div 2 ELSE (x[3] + 1) \div 2
         IN  IF IsSquare(a) THEN Reduce(ISqrt(a), 0, h)
             ELSE IF a % 2 = 0 /\ IsSquare(a \div 2) THEN Reduce(0, ISqrt(a \div 2), h)
             ELSE CHOOSE q \in {} : TRUE   \* not a number of the ring

-----------------------------------------------------------------------------
(* Trigonometry on angles given in units of pi/4 *)

SinTab == <<Zero, Sqrt2Half, One, Sqrt2Half, Zero, Neg(Sqrt2Half), Neg(One), Neg(Sqrt2Half)>>

CosTab == <<One, Sqrt2Half, Zero, Neg(Sqrt2Half), Neg(One), Neg(Sqrt2Half), Zero, Sqrt2Half>>

\* np.sin / np.cos of one angle; an angle is a whole number of units
IsWhole(x) == ~IsNaN(x) /\ x[2] = 0 /\ x[3] = 0

Sin(x) ==
    IF IsNaN(x) THEN NaN
    ELSE IF IsWhole(x) THEN SinTab[(x[1] % 8) + 1]
    ELSE CHOOSE q \in {} : TRUE

Cos(x) ==
    IF IsNaN(x) THEN NaN
    ELSE IF IsWhole(x) THEN CosTab[(x[1] % 8) + 1]
    ELSE CHOOSE q \in {} : TRUE

\* np.arccos on the cosines of the angles 0, pi/4, ..., pi
ArcCos(c) ==
    IF IsNaN(c) THEN NaN
    ELSE IF c = One THEN N(0)
    ELSE IF c = Sqrt2Half THEN N(1)
    ELSE IF c = Zero THEN N(2)
    ELSE IF c = Neg(Sqrt2Half) THEN N(3)
    ELSE IF c = Neg(One) THEN N(4)
    ELSE CHOOSE q \in {} : TRUE

-----------------------------------------------------------------------------
(* Vector utilities (module vector_utilities) *)

\* a function on 1..n as the sequence of its values
AsSeq(f) == <<>> \o f

RECURSIVE SumSeq(_)
SumSeq(s) == IF Len(s) = 0 THEN Zero ELSE Add(Head(s), SumSeq(Tail(s)))

\* dot product of two vectors of equal length
DotV(u, v) == SumSeq(AsSeq([c \in 1..Len(u) |-> Mul(u[c], v[c])]))

NormV(v) == Sqrt(DotV(v, v))

NormalizeV(v) == LET n == NormV(v) IN AsSeq([c \in 1..Len(v) |-> Div(v[c], n)])

elementwise_dot(x, y) == AsSeq([i \in 1..Len(x) |-> DotV(x[i], y[i])])

elementwise_norm(x) == AsSeq([i \in 1..Len(x) |-> NormV(x[i])])

normalized_vectors(x) == AsSeq([i \in 1..Len(x) |-> NormalizeV(x[i])])

angles_between_list_of_vectors(v0, v1) ==
    LET n0 == normalized_vectors(v0)
        n1 == normalized_vectors(v1)
    IN  AsSeq([i \in 1..Len(v0) |-> ArcCos(DotV(n0[i], n1[i]))])

-----------------------------------------------------------------------------
(* Outcomes of a call, and arrays with a shape *)

Ok(v) == [status |-> "ok", value |-> v]

Raise(e) == [status |-> e, value |-> <<>>]

Pending == [status |-> "pending", value |-> <<>>]

\* an ndarray: np.shape(a) is a.shape, a.data the nested entries
Arr(shape, data) == [shape |-> shape, data |-> data]

MatVec(M, v) == AsSeq([r \in 1..Len(M) |-> DotV(M[r], v)])

-----------------------------------------------------------------------------
(* rotate_vector_collection.py *)

\* np.dot(R, vectors.T).T for a matrix R and vectors of shape (n, d)
DotT2(R, vectors) ==
    Ok(Arr(<<vectors.shape[1], Len(R)>>,
           AsSeq([i \in 1..vectors.shape[1] |-> MatVec(R, vectors.data[i])])))

\* np.dot(R, vectors.T).T for a matrix R and vectors of shape (k, n, d):
\* vectors.T has shape (d, n, k) and np.dot sums the last axis of R with the
\* second-to-last axis of vectors.T, which is the axis of length n
DotT3(R, vectors) ==
    LET k == vectors.shape[1]
        n == vectors.shape[2]
        d == vectors.shape[3]
    IN  IF Len(R[1]) # n THEN Raise("ValueError")
        ELSE Ok(Arr(<<k, d, Len(R)>>,
                AsSeq([m \in 1..k |-> AsSeq([j \in 1..d |-> AsSeq([r \in 1..Len(R) |->
                    SumSeq(AsSeq([l \in 1..n |-> Mul(R[r][l], vectors.data[m][l][j])]))])])])))

DotT(R, vectors) ==
    IF Len(vectors.shape) = 2 THEN DotT2(R, vectors) ELSE DotT3(R, vectors)

\* a label of size 1 is broadcast by np.einsum; other sizes must agree
Broadcastable(a, b) == a = b \/ a = 1 \/ b = 1

Pick(n, i) == IF n = 1 THEN 1 ELSE i

Max(a, b) == IF a > b THEN a ELSE b

\* Einsum2 with every vector rotated by the first matrix
Einsum2First(rotation_matrices, vectors) ==
    LET m == rotation_matrices.shape[1]
        n == vectors.shape[1]
    IN  IF ~Broadcastable(m, n) THEN Raise("ValueError")
        ELSE Ok(Arr(<<Max(m, n), rotation_matrices.shape[2]>>,
                AsSeq([i \in 1..Max(m, n) |->
                    MatVec(rotation_matrices.data[1], vectors.data[Pick(n, i)])])))

\* np.einsum('ijk,ik->ij', rotation_matrices, vectors)
Einsum2(rotation_matrices, vectors) ==
    LET m == rotation_matrices.shape[1]
        n == vectors.shape[1]
    IN  IF ~Broadcastable(m, n) THEN Raise("ValueError")
        ELSE Ok(Arr(<<Max(m, n), rotation_matrices.shape[2]>>,
                AsSeq([i \in 1..Max(m, n) |->
                    MatVec(rotation_matrices.data[Pick(m, i)], vectors.data[Pick(n, i)])])))

\* np.einsum('ikl,ijl->ijk', rotation_matrices, vectors)
Einsum3(rotation_matrices, vectors) ==
    LET m == rotation_matrices.shape[1]
        k == vectors.shape[1]
    IN  IF ~Broadcastable(m, k) THEN Raise("ValueError")
        ELSE Ok(Arr(<<Max(m, k), vectors.shape[2], rotation_matrices.shape[2]>>,
                AsSeq([i \in 1..Max(m, k) |-> AsSeq([j \in 1..vectors.shape[2] |->
                    MatVec(rotation_matrices.data[Pick(m, i)], vectors.data[Pick(k, i)][j])])])))

Last(s) == s[Len(s)]

\* lines 70-92: the dispatch on the shapes of the arguments
RotateDispatch(rotation_matrices, vectors) ==
    IF Len(rotation_matrices.shape) = 2
        THEN DotT(rotation_matrices.data, vectors)
    ELSE IF rotation_matrices.shape[1] = 1
        THEN DotT(rotation_matrices.data[1], vectors)
    ELSE IF Len(vectors.shape) = 3
        THEN Einsum3(rotation_matrices, vectors)
    ELSE Einsum2(rotation_matrices, vectors)

\* rotate_vector_collection with the dimension check made only after the
\* single-matrix branch, where np.dot itself rejects the shapes
rotate_vector_collection_latecheck(rotation_matrices, vectors) ==
    IF Last(rotation_matrices.shape) = Last(vectors.shape)
        THEN RotateDispatch(rotation_matrices, vectors)
    ELSE IF Len(rotation_matrices.shape) = 2 THEN Raise("ValueError")
    ELSE Raise("AssertionError")

rotate_vector_collection(rotation_matrices, vectors) ==
    LET ndim_rotm == Last(rotation_matrices.shape)
        ndim_vec == Last(vectors.shape)
    IN  IF ndim_rotm # ndim_vec THEN Raise("AssertionError")
        ELSE RotateDispatch(rotation_matrices, vectors)

-----------------------------------------------------------------------------
(* rotations3d.py *)

\* rotate_vector_collection of rotations3d.py: no dimension check; anything
\* but a (3, 3) matrix goes to np.einsum('ijk,ik->ij', ...)
rotate_vector_collection3d(rotation_matrices, vectors) ==
    IF rotation_matrices.shape = <<3, 3>>
    THEN IF Len(vectors.shape) = 2 /\ vectors.shape[2] # 3 THEN Raise("ValueError")
         ELSE DotT(rotation_matrices.data, vectors)
    ELSE IF Len(rotation_matrices.shape) # 3 \/ Len(vectors.shape) # 2
         THEN Raise("ValueError")
    ELSE IF ~Broadcastable(Last(rotation_matrices.shape), Last(vectors.shape))
         THEN Raise("ValueError")
    ELSE Einsum2(rotation_matrices, vectors)

\* Diag3 with the last diagonal entry left at zero
Diag3Short(c) == <<<<c, Zero, Zero>>, <<Zero, c, Zero>>, <<Zero, Zero, Zero>>>>

Diag3(c) == <<<<c, Zero, Zero>>, <<Zero, c, Zero>>, <<Zero, Zero, c>>>>

\* Skew3 with the two index lists exchanged
Skew3Transposed(d) == << <<Zero, Add(Zero, d[3]), Sub(Zero, d[2])>>,
                         <<Sub(Zero, d[3]), Zero, Add(Zero, d[1])>>,
                         <<Add(Zero, d[2]), Sub(Zero, d[1]), Zero>> >>

\* R3 after lines 112-114, d being the axis times the sine
Skew3(d) == << <<Zero, Sub(Zero, d[3]), Add(Zero, d[2])>>,
               <<Add(Zero, d[3]), Zero, Sub(Zero, d[1])>>,
               <<Sub(Zero, d[2]), Add(Zero, d[1]), Zero>> >>

MatAdd(A, B) == AsSeq([r \in 1..Len(A) |-> AsSeq([c \in 1..Len(A[r]) |-> Add(A[r][c], B[r][c])])])

rotation_matrices_from_angles(angles, directions) ==
    LET dirs == normalized_vectors(directions)
        npts == Len(dirs)
        sina == AsSeq([i \in 1..npts |-> Sin(angles[i])])
        cosa == AsSeq([i \in 1..npts |-> Cos(angles[i])])
        R1 == AsSeq([i \in 1..npts |-> Diag3(cosa[i])])
        R2 == AsSeq([i \in 1..npts |-> AsSeq([r \in 1..3 |-> AsSeq([c \in 1..3 |->
                  Mul(Mul(dirs[i][r], dirs[i][c]), Sub(One, cosa[i]))])])])
        scaled == AsSeq([i \in 1..npts |-> AsSeq([c \in 1..3 |-> Mul(dirs[i][c], sina[i])])])
        R3 == AsSeq([i \in 1..npts |-> Skew3(scaled[i])])
    IN  AsSeq([i \in 1..npts |-> MatAdd(MatAdd(R1[i], R2[i]), R3[i])])

\* np.cross of two 3d vectors
Cross(x, y) == << Sub(Mul(x[2], y[3]), Mul(x[3], y[2])),
                  Sub(Mul(x[3], y[1]), Mul(x[1], y[3])),
                  Sub(Mul(x[1], y[2]), Mul(x[2], y[1])) >>

\* vectors_normal_to_planes with the cross product taken as y times x
vectors_normal_to_planes_swapped(x, y) ==
    normalized_vectors(AsSeq([i \in 1..Len(x) |-> Cross(y[i], x[i])]))

vectors_normal_to_planes(x, y) ==
    normalized_vectors(AsSeq([i \in 1..Len(x) |-> Cross(x[i], y[i])]))

\* lines 160-162: mask_a | mask_b
DegenerateMask(directions, angles) ==
    AsSeq([i \in 1..Len(directions) |->
              \/ IsNaN(directions[i][1])
              \/ IsNaN(directions[i][2])
              \/ IsNaN(directions[i][3])
              \/ Eq(angles[i], Zero)])

rotation_matrices_from_vectors(v0, v1) ==
    LET n0 == normalized_vectors(v0)
        n1 == normalized_vectors(v1)
        directions == vectors_normal_to_planes(n0, n1)
        angles == angles_between_list_of_vectors(n0, n1)
        mask == DegenerateMask(directions, angles)
        replaced == AsSeq([i \in 1..Len(n0) |-> IF mask[i] THEN n0[i] ELSE directions[i]])
    IN  rotation_matrices_from_angles(angles, replaced)

ex == <<One, Zero, Zero>>
ey == <<Zero, One, Zero>>
ez == <<Zero, Zero, One>>

\* rotation_matrices_from_basis with the basis vectors as rows
rotation_matrices_from_basis_rows(ux, uy, uz) ==
    LET nx == normalized_vectors(ux)
        ny == normalized_vectors(uy)
        nz == normalized_vectors(uz)
    IN  AsSeq([i \in 1..Len(ux) |->
            << <<DotV(ex, nx[i]), DotV(ey, nx[i]), DotV(ez, nx[i])>>,
               <<DotV(ex, ny[i]), DotV(ey, ny[i]), DotV(ez, ny[i])>>,
               <<DotV(ex, nz[i]), DotV(ey, nz[i]), DotV(ez, nz[i])>> >>])

rotation_matrices_from_basis(ux, uy, uz) ==
    LET nx == normalized_vectors(ux)
        ny == normalized_vectors(uy)
        nz == normalized_vectors(uz)
    IN  AsSeq([i \in 1..Len(ux) |->
            << <<DotV(ex, nx[i]), DotV(ex, ny[i]), DotV(ex, nz[i])>>,
               <<DotV(ey, nx[i]), DotV(ey, ny[i]), DotV(ey, nz[i])>>,
               <<DotV(ez, nx[i]), DotV(ez, ny[i]), DotV(ez, nz[i])>> >>])

\* AllNonNegative with np.any in place of np.all
AnyNonNegative(p) == \E i \in 1..Len(p) : Geq(p[i], Zero)

\* np.all(p >= 0) and np.all(p <= 1)
AllNonNegative(p) == \A i \in 1..Len(p) : Geq(p[i], Zero)

AllAtMostOne(p) == \A i \in 1..Len(p) : Leq(p[i], One)

vectors_between_list_of_vectors(x, y, p) ==
    IF ~AllNonNegative(p) THEN Raise("AssertionError")
    ELSE IF ~AllAtMostOne(p) THEN Raise("AssertionError")
    ELSE LET z == vectors_normal_to_planes(x, y)
             theta == angles_between_list_of_vectors(x, y)
             angles == AsSeq([i \in 1..Len(p) |-> Mul(p[i], theta[i])])
             rotation_matrices == rotation_matrices_from_angles(angles, z)
             rotated == rotate_vector_collection3d(
                            Arr(<<Len(z), 3, 3>>, rotation_matrices),
                            Arr(<<Len(x), 3>>, x))
         IN  IF rotated.status # "ok" THEN rotated
             ELSE Ok(normalized_vectors(rotated.value.data))

\* line 335 reads the name x, which is bound nowhere: the parameters are x1
\* and x2 and the module has no global x.  n and d are computed, then the
\* return expression raises NameError.
project_onto_plane(x1, x2) ==
    LET n == normalized_vectors(x2)
        d == elementwise_dot(x1, n)
    IN  Raise("NameError")

-----------------------------------------------------------------------------
(* Bounds and the inputs drawn within them *)

MaxLen == 2      \* axis vectors have integer length 0..MaxLen
MaxPts == 2      \* npts, the length of a collection
MaxStride == 1   \* how far consecutive entries of a collection are apart
MaxTurn == 4     \* angles range over -MaxTurn..MaxTurn units of pi/4
MaxPH == 3       \* fractions p range over -1/2, 0, ..., MaxPH/2
MaxDim == 3      \* ndim of rotate_vector_collection ranges over 2..MaxDim
MaxSets == 2     \* number of matrices / of sets of vectors
MaxSeed == 1     \* offsets of the entries of a generic array

AxisVec(a, k) == AsSeq([c \in 1..3 |-> IF c = a THEN N(k) ELSE Zero])

\* the diagonal of a coordinate plane: 0 along axis a, s1 and s2 (each 1 or -1)
\* along the next two axes
DiagVec(a, s1, s2) ==
    AsSeq([c \in 1..3 |-> IF c = a THEN Zero ELSE IF c = (a % 3) + 1 THEN N(s1) ELSE N(s2)])

NAxis == 3 * (2 * MaxLen + 1)

NVec == NAxis + 12

\* the j-th input vector: first the vectors along the coordinate axes, of
\* lengths -MaxLen..MaxLen (zero included), then the twelve plane diagonals
Vec(j) ==
    IF j < NAxis THEN AxisVec((j % 3) + 1, (j \div 3) - MaxLen)
    ELSE LET q == j - NAxis
         IN  DiagVec((q % 3) + 1,
                     IF (q \div 3) % 2 = 0 THEN 1 ELSE -1,
                     IF (q \div 6) % 2 = 0 THEN 1 ELSE -1)

\* a collection of n axis vectors, starting at vector j, t vectors apart
Coll(n, j, t) == AsSeq([i \in 1..n |-> Vec((j + (i - 1) * t) % NVec)])

Strides == 0..MaxStride

\* the angle between x[i] and y[i] is a multiple of pi/4 at every index, or
\* undefined (a zero vector)
AnglesExact(x, y) ==
    \A i \in 1..Len(x) :
        LET c == DotV(NormalizeV(x[i]), NormalizeV(y[i]))
        IN  IsNaN(c) \/ c \in {One, Sqrt2Half, Zero, Neg(Sqrt2Half), Neg(One)}

Colls(n) == {Coll(n, j, t) : j \in 0..(NVec - 1), t \in Strides}

\* the fraction p[i] of the angle theta[i] is a multiple of pi/4 at every
\* index, or undefined
FractionsExact(theta, p) ==
    \A i \in 1..Len(p) : IsNaN(Mul(p[i], theta[i])) \/ IsWhole(Mul(p[i], theta[i]))

\* a collection of n angles, in units of pi/4
AngleColls(n) == {AsSeq([i \in 1..n |-> N(q + (i - 1) * t)]) : q \in (-MaxTurn)..MaxTurn, t \in Strides}

\* a collection of n fractions p, in halves
PColl(n, h, t) == AsSeq([i \in 1..n |-> Reduce(h + (i - 1) * t, 0, 1)])

\* the six signed axis vectors of length k: j in 0..5 gives the axis, j % 3,
\* and the sign, plus for j < 3; s moves the axis cyclically and keeps the sign
UnitVec(j, s, k) == AxisVec(((j + s) % 3) + 1, IF j < 3 THEN k ELSE -k)

UnitColl(n, j, t, k) == AsSeq([i \in 1..n |-> UnitVec(j, (i - 1) * t, k)])

\* generic arrays: entries all different within an array
GenMat(d, s, i) == AsSeq([r \in 1..d |-> AsSeq([c \in 1..d |-> N(s + 25 * i + 5 * r + c - 40)])])

GenVec(d, s, k, i) == AsSeq([c \in 1..d |-> N(s - 25 * k + 5 * i - c)])

Dims == 2..MaxDim

Seeds == (-MaxSeed)..MaxSeed

MatrixArgs ==
    {Arr(<<d, d>>, GenMat(d, s, 0)) : d \in Dims, s \in Seeds}
    \cup {Arr(<<m, d, d>>, AsSeq([i \in 1..m |-> GenMat(d, s, i)])) :
              m \in 1..MaxSets, d \in Dims, s \in Seeds}

VectorArgs ==
    {Arr(<<n, d>>, AsSeq([i \in 1..n |-> GenVec(d, s, 0, i)])) :
              n \in 1..MaxPts, d \in Dims, s \in Seeds}
    \cup UNION {{Arr(<<k, n, d>>, AsSeq([m \in 1..k |-> AsSeq([i \in 1..n |-> GenVec(d, s, m, i)])])) :
              n \in 1..MaxPts, d \in Dims} : k \in 1..MaxSets, s \in Seeds}

-----------------------------------------------------------------------------
(* One specification per group of functions: Init draws the call and its   *)
(* arguments, the action is the call.                                      *)

\* rotate_vector_collection, both implementations
InitRotate ==
    /\ fn \in {"rotate_vector_collection", "rotate_vector_collection3d"}
    /\ args \in [rotation_matrices : MatrixArgs, vectors : VectorArgs]
    /\ ret = Pending

CallRotate ==
    /\ fn = "rotate_vector_collection"
    /\ ret.status = "pending"
    /\ ret' = rotate_vector_collection(args.rotation_matrices, args.vectors)
    /\ UNCHANGED <<fn, args>>

CallRotate3d ==
    /\ fn = "rotate_vector_collection3d"
    /\ ret.status = "pending"
    /\ ret' = rotate_vector_collection3d(args.rotation_matrices, args.vectors)
    /\ UNCHANGED <<fn, args>>

NextRotate == CallRotate \/ CallRotate3d

SpecRotate == InitRotate /\ [][NextRotate]_vars

\* rotation_matrices_from_angles
InitAngles ==
    /\ fn = "rotation_matrices_from_angles"
    /\ \E n \in 1..MaxPts :
          args \in [angles : AngleColls(n), directions : Colls(n)]
    /\ ret = Pending

CallAngles ==
    /\ fn = "rotation_matrices_from_angles"
    /\ ret.status = "pending"
    /\ ret' = Ok(rotation_matrices_from_angles(args.angles, args.directions))
    /\ UNCHANGED <<fn, args>>

SpecAngles == InitAngles /\ [][CallAngles]_vars

\* rotation_matrices_from_vectors, then the round trip of the docstring
\* example: v2 = rotate_vector_collection(rotation_matrices, v0)
InitVectors ==
    /\ fn = "rotation_matrices_from_vectors"
    /\ \E n \in 1..MaxPts, t \in Strides, j0, j1 \in 0..(NVec - 1) :
          /\ AnglesExact(Coll(n, j0, t), Coll(n, j1, t))
          /\ args = [v0 |-> Coll(n, j0, t), v1 |-> Coll(n, j1, t)]
    /\ ret = Pending

CallVectors ==
    /\ fn = "rotation_matrices_from_vectors"
    /\ ret.status = "pending"
    /\ ret' = Ok(rotation_matrices_from_vectors(args.v0, args.v1))
    /\ UNCHANGED <<fn, args>>

RoundTrip ==
    /\ fn = "rotation_matrices_from_vectors"
    /\ ret.status = "ok"
    /\ fn' = "round_trip"
    /\ ret' = rotate_vector_collection(
                  Arr(<<Len(args.v0), 3, 3>>, ret.value),
                  Arr(<<Len(args.v0), 3>>, normalized_vectors(args.v0)))
    /\ UNCHANGED args

RoundTrip3d ==
    /\ fn = "rotation_matrices_from_vectors"
    /\ ret.status = "ok"
    /\ fn' = "round_trip3d"
    /\ ret' = rotate_vector_collection3d(
                  Arr(<<Len(args.v0), 3, 3>>, ret.value),
                  Arr(<<Len(args.v0), 3>>, normalized_vectors(args.v0)))
    /\ UNCHANGED args

NextVectors == CallVectors \/ RoundTrip \/ RoundTrip3d

SpecVectors == InitVectors /\ [][NextVectors]_vars

\* rotation_matrices_from_basis
InitBasis ==
    /\ fn = "rotation_matrices_from_basis"
    /\ \E n \in 1..MaxPts, t, tz \in Strides, k \in 1..MaxLen, jx, jy, jz \in 0..5 :
          args = [ux |-> UnitColl(n, jx, t, k),
                  uy |-> UnitColl(n, jy, t, k),
                  uz |-> UnitColl(n, jz, tz, k)]
    /\ ret = Pending

CallBasis ==
    /\ fn = "rotation_matrices_from_basis"
    /\ ret.status = "pending"
    /\ ret' = Ok(rotation_matrices_from_basis(args.ux, args.uy, args.uz))
    /\ UNCHANGED <<fn, args>>

SpecBasis == InitBasis /\ [][CallBasis]_vars

\* vectors_between_list_of_vectors
InitBetween ==
    /\ fn = "vectors_between_list_of_vectors"
    /\ \E n \in 1..MaxPts, t \in Strides, jx, jy \in 0..(NVec - 1) :
          LET x == Coll(n, jx, t)
              y == Coll(n, jy, t)
          IN  /\ AnglesExact(x, y)
              /\ LET theta == angles_between_list_of_vectors(x, y)
                 IN  \E h \in (-1)..MaxPH :
                        /\ FractionsExact(theta, PColl(n, h, t))
                        /\ args = [x |-> x, y |-> y, p |-> PColl(n, h, t)]
    /\ ret = Pending

CallBetween ==
    /\ fn = "vectors_between_list_of_vectors"
    /\ ret.status = "pending"
    /\ ret' = vectors_between_list_of_vectors(args.x, args.y, args.p)
    /\ UNCHANGED <<fn, args>>

SpecBetween == InitBetween /\ [][CallBetween]_vars

\* project_onto_plane
InitProject ==
    /\ fn = "project_onto_plane"
    /\ \E n \in 1..MaxPts : args \in [x1 : Colls(n), x2 : Colls(n)]
    /\ ret = Pending

CallProject ==
    /\ fn = "project_onto_plane"
    /\ ret.status = "pending"
    /\ ret' = project_onto_plane(args.x1, args.x2)
    /\ UNCHANGED <<fn, args>>

SpecProject == InitProject /\ [][CallProject]_vars

-----------------------------------------------------------------------------
(* Properties *)

ZeroVec == <<Zero, Zero, Zero>>

Identity3 == <<ex, ey, ez>>

NonDegenerate(u, v) == Cross(u, v) # ZeroVec

AntiParallel(u, v) == u # ZeroVec /\ v # ZeroVec /\ Cross(u, v) = ZeroVec /\ Sign(DotV(u, v)) < 0

Transpose3(M) == AsSeq([r \in 1..3 |-> AsSeq([c \in 1..3 |-> M[c][r]])])

MatMul3(A, B) == AsSeq([r \in 1..3 |-> AsSeq([c \in 1..3 |-> DotV(A[r], Transpose3(B)[c])])])

Det3(M) == DotV(M[1], Cross(M[2], M[3]))

Scale(k, v) == AsSeq([c \in 1..Len(v) |-> Mul(k, v[c])])

VecSub(u, v) == AsSeq([c \in 1..Len(u) |-> Sub(u[c], v[c])])

Returned == ret.status # "pending"

\* C1: round trip.  For every index i where v0[i] and v1[i] are non-zero and
\* neither parallel nor anti-parallel, applying matrix[i] of
\* rotation_matrices_from_vectors(v0, v1) to the normalized v0[i] gives the
\* normalized v1[i].
C1_RoundTrip ==
    fn \in {"round_trip", "round_trip3d"} =>
        /\ ret.status = "ok"
        /\ \A i \in 1..Len(args.v0) :
              NonDegenerate(args.v0[i], args.v1[i]) =>
                  ret.value.data[i] = NormalizeV(args.v1[i])

C1_Witness ==
    /\ fn = "round_trip"
    /\ ret.status = "ok"
    /\ Len(args.v0) = 2
    /\ NonDegenerate(args.v0[1], args.v1[1])
    /\ NonDegenerate(args.v0[2], args.v1[2])
    /\ args.v0[1] # args.v0[2]
    /\ NormV(args.v0[2]) # One
    /\ ret.value.data[2] = NormalizeV(args.v1[2])

\* the matrix that rotates vector i, and the calls that are of the flat forms
C2_MatrixFor(i) ==
    IF Len(args.rotation_matrices.shape) = 2 THEN args.rotation_matrices.data
    ELSE IF args.rotation_matrices.shape[1] = 1 THEN args.rotation_matrices.data[1]
    ELSE args.rotation_matrices.data[i]

C2_Applies ==
    /\ fn \in {"rotate_vector_collection", "rotate_vector_collection3d"}
    /\ Returned
    /\ Len(args.vectors.shape) = 2
    /\ Last(args.rotation_matrices.shape) = Last(args.vectors.shape)
    /\ fn = "rotate_vector_collection3d" => Last(args.vectors.shape) = 3
    /\ \/ Len(args.rotation_matrices.shape) = 2
       \/ args.rotation_matrices.shape[1] = 1
       \/ /\ args.rotation_matrices.shape[1] = args.vectors.shape[1]
          /\ args.vectors.shape[1] >= 2

\* C2: for a flat collection of n d-dimensional vectors the call returns n
\* vectors with output[i] = M_i . vectors[i], M_i being the one matrix when
\* the matrix argument is a single d x d matrix or a collection of length 1,
\* and rotation_matrices[i] when it is a collection of n >= 2 matrices.
C2_FlatRotation ==
    C2_Applies =>
        /\ ret.status = "ok"
        /\ ret.value.shape = args.vectors.shape
        /\ \A i \in 1..args.vectors.shape[1] :
              ret.value.data[i] = MatVec(C2_MatrixFor(i), args.vectors.data[i])

C2_Witness ==
    /\ C2_Applies
    /\ fn = "rotate_vector_collection"
    /\ args.rotation_matrices.shape = <<2, 3, 3>>
    /\ args.vectors.shape = <<2, 3>>
    /\ ret.status = "ok"
    /\ ret.value.data[2] = MatVec(args.rotation_matrices.data[2], args.vectors.data[2])
    /\ ret.value.data[2] # MatVec(args.rotation_matrices.data[1], args.vectors.data[2])

\* the calls of the batched-by-set form
C3_Applies ==
    /\ fn = "rotate_vector_collection"
    /\ Returned
    /\ Len(args.rotation_matrices.shape) = 3
    /\ Len(args.vectors.shape) = 3
    /\ args.rotation_matrices.shape[1] = args.vectors.shape[1]
    /\ Last(args.rotation_matrices.shape) = Last(args.vectors.shape)

\* C3: batched-by-set form.  For every k >= 1 matrices and k sets of n >= 1
\* vectors the call returns an array of the shape (k, n, d) of the vectors with
\* output[s][i] = rotation_matrices[s] . vectors[s][i], k = 1 included.
C3_BatchedBySet ==
    C3_Applies =>
        /\ ret.status = "ok"
        /\ ret.value.shape = args.vectors.shape
        /\ \A s \in 1..args.vectors.shape[1] : \A i \in 1..args.vectors.shape[2] :
              ret.value.data[s][i] =
                  MatVec(args.rotation_matrices.data[s], args.vectors.data[s][i])

\* C4: every matrix returned by rotation_matrices_from_angles for a non-zero
\* axis is a proper rotation: its transpose times itself is the identity and
\* its determinant is 1, for every angle and every length of the axis.
C4_ProperRotation ==
    (fn = "rotation_matrices_from_angles" /\ Returned) =>
        /\ ret.status = "ok"
        /\ Len(ret.value) = Len(args.angles)
        /\ \A i \in 1..Len(args.angles) :
              args.directions[i] # ZeroVec =>
                  /\ MatMul3(Transpose3(ret.value[i]), ret.value[i]) = Identity3
                  /\ Det3(ret.value[i]) = One

C4_Witness ==
    /\ fn = "rotation_matrices_from_angles"
    /\ ret.status = "ok"
    /\ Len(args.angles) = 2
    /\ args.angles[2] = N(-3)
    /\ args.directions[2] # ZeroVec
    /\ NormV(args.directions[2]) # One
    /\ args.directions[1] # args.directions[2]
    /\ MatMul3(Transpose3(ret.value[2]), ret.value[2]) = Identity3
    /\ ret.value[2] # Identity3

\* C5: project_onto_plane(x1, x2) returns, for every index i with non-zero
\* x2[i], the vector x1[i] - (x1[i] . n[i]) n[i], n[i] being x2[i] normalized;
\* the returned vector has zero dot product with x2[i].
C5_Projection ==
    (fn = "project_onto_plane" /\ Returned) =>
        /\ ret.status = "ok"
        /\ \A i \in 1..Len(args.x1) :
              args.x2[i] # ZeroVec =>
                  LET n == NormalizeV(args.x2[i])
                  IN  /\ ret.value[i] = VecSub(args.x1[i], Scale(DotV(args.x1[i], n), n))
                      /\ DotV(ret.value[i], args.x2[i]) = Zero

\* C6: vectors_between_list_of_vectors interpolates by rotation about the
\* plane normal.  For every index i where x[i] and y[i] are non-zero and not
\* parallel the returned vector is a unit vector, equal to the unit vector
\* along x[i] for p[i] = 0 and along y[i] for p[i] = 1; its angle with x[i] is
\* p[i] times the angle between x[i] and y[i], and its angle with y[i] is the
\* rest of that angle (it turns toward y[i]).
C6_Between ==
    (fn = "vectors_between_list_of_vectors" /\ ret.status = "ok") =>
        LET theta == angles_between_list_of_vectors(args.x, args.y)
            ax == angles_between_list_of_vectors(args.x, ret.value)
            ay == angles_between_list_of_vectors(ret.value, args.y)
        IN  \A i \in 1..Len(args.x) :
              NonDegenerate(args.x[i], args.y[i]) =>
                  /\ NormV(ret.value[i]) = One
                  /\ args.p[i] = Zero => ret.value[i] = NormalizeV(args.x[i])
                  /\ args.p[i] = One => ret.value[i] = NormalizeV(args.y[i])
                  /\ ax[i] = Mul(args.p[i], theta[i])
                  /\ ay[i] = Mul(Sub(One, args.p[i]), theta[i])

C6_Witness ==
    /\ fn = "vectors_between_list_of_vectors"
    /\ ret.status = "ok"
    /\ Len(args.x) = 2
    /\ NonDegenerate(args.x[1], args.y[1])
    /\ NonDegenerate(args.x[2], args.y[2])
    /\ args.p[1] = Half
    /\ args.p[2] = One
    /\ NormV(args.x[1]) # One
    /\ angles_between_list_of_vectors(args.x, ret.value)[1] = One
    /\ ret.value[2] = NormalizeV(args.y[2])

\* C7: rotate_vector_collection fails with the shape-mismatch error, and
\* returns nothing, whenever the last dimension of the matrix argument
\* differs from the last dimension of the vector argument, in all three forms
\* (the check precedes the dispatch, so no other error is raised first).
C7_ShapeMismatch ==
    (/\ fn = "rotate_vector_collection"
     /\ Returned
     /\ Last(args.rotation_matrices.shape) # Last(args.vectors.shape)) =>
        ret = Raise("AssertionError")

C7_Witness ==
    /\ fn = "rotate_vector_collection"
    /\ args.rotation_matrices.shape = <<3, 3>>
    /\ args.vectors.shape = <<2, 2, 2>>
    /\ ret = Raise("AssertionError")

\* 0 <= q <= 1
C8_InRange(q) == Sign(q) >= 0 /\ Sign(Sub(q, One)) <= 0

\* C8: vectors_between_list_of_vectors fails with the out-of-range error, and
\* returns nothing, whenever at least one p[i] is below 0 or above 1, whatever
\* the other entries are; p[i] = 0 and p[i] = 1 are accepted.
C8_OutOfRange ==
    (fn = "vectors_between_list_of_vectors" /\ Returned) =>
        IF \E i \in 1..Len(args.p) : ~C8_InRange(args.p[i])
        THEN ret = Raise("AssertionError")
        ELSE ret.status = "ok"

C8_Witness ==
    /\ fn = "vectors_between_list_of_vectors"
    /\ Len(args.p) = 2
    /\ args.p[1] = One
    /\ ~C8_InRange(args.p[2])
    /\ NonDegenerate(args.x[1], args.y[1])
    /\ ret = Raise("AssertionError")

\* the basis vectors of index i are a right-handed orthonormal frame
C9_Frame(i) ==
    /\ DotV(args.ux[i], args.ux[i]) = One
    /\ DotV(args.uy[i], args.uy[i]) = One
    /\ DotV(args.uz[i], args.uz[i]) = One
    /\ DotV(args.ux[i], args.uy[i]) = Zero
    /\ Cross(args.ux[i], args.uy[i]) = args.uz[i]

\* C9: for every index i where (ux[i], uy[i], uz[i]) is a right-handed
\* orthonormal frame, matrix[i][r][c] = standard_basis[r] . supplied_basis[c]:
\* the columns are ux[i], uy[i], uz[i], and the matrix takes ex, ey, ez to
\* ux[i], uy[i], uz[i].
C9_Basis ==
    (fn = "rotation_matrices_from_basis" /\ Returned) =>
        /\ ret.status = "ok"
        /\ \A i \in 1..Len(args.ux) :
              C9_Frame(i) =>
                  LET std == <<ex, ey, ez>>
                      sup == <<args.ux[i], args.uy[i], args.uz[i]>>
                  IN  /\ \A r \in 1..3 : \A c \in 1..3 :
                            ret.value[i][r][c] = DotV(std[r], sup[c])
                      /\ MatVec(ret.value[i], ex) = args.ux[i]
                      /\ MatVec(ret.value[i], ey) = args.uy[i]
                      /\ MatVec(ret.value[i], ez) = args.uz[i]

C9_Witness ==
    /\ fn = "rotation_matrices_from_basis"
    /\ ret.status = "ok"
    /\ Len(args.ux) = 2
    /\ C9_Frame(1)
    /\ C9_Frame(2)
    /\ args.ux[1] # args.ux[2]
    /\ ret.value[2] # Transpose3(ret.value[2])
    /\ MatVec(ret.value[2], ex) = args.ux[2]

\* C10: when v0[i] and v1[i] are exactly anti-parallel the cross product is
\* zero, the fallback substitutes v0[i] as the rotation axis, and the matrix
\* returned for index i is an identity rotation.
C10_AntiParallelIdentity ==
    (fn = "rotation_matrices_from_vectors" /\ ret.status = "ok") =>
        \A i \in 1..Len(args.v0) :
            AntiParallel(args.v0[i], args.v1[i]) => ret.value[i] = Identity3


====
